---- MODULE Spec2Model ----
(***************************************************************************)
(* Model of the DXIL library linker of lib/HLSL/DxilLinker.cpp:            *)
(* DxilLib (the per-library index), DxilLinkerImpl (library map, attached  *)
(* set, symbol registry) and DxilLinkJob (closure, validation, globals and *)
(* resources, cloning, static initializers, finalization).                 *)
(*                                                                         *)
(* A pointer into a library (Function*, GlobalVariable*, link-info) is the *)
(* pair <<library name, symbol name>>; names are strings so that the       *)
(* prefixing of internal symbols is real concatenation.  Containers whose  *)
(* iteration order the code does not fix (unordered_set, unordered_map,    *)
(* StringMap) are iterated in an order chosen nondeterministically.        *)
(***************************************************************************)
EXTENDS Integers, Sequences, FiniteSets, TLC

(* ------------------------------ bounds --------------------------------- *)
\* number of libraries that may be registered at the same time
MaxLibs == 2

\* names a client registers libraries under
LibNames == {"a", "b", "ab"}

\* entry names and profiles a client passes to Link
EntryNames == {"main", "helper", "foo"}
Profiles == {"vs_6_0", "ps_6_0", "hs_6_0"}

(* ------------------------------ helpers -------------------------------- *)
\* all enumeration orders of a finite set
Orders(S) ==
  {s \in [1..Cardinality(S) -> S] : \A i, j \in 1..Cardinality(S) : s[i] = s[j] => i = j}

Range(s) == {s[i] : i \in 1..Len(s)}

\* map m with key k removed
Erase(m, k) == [x \in (DOMAIN m) \ {k} |-> m[x]]

\* map m with m[k] = v (inserting or overwriting)
Put(m, k, v) == [x \in (DOMAIN m) \cup {k} |-> IF x = k THEN v ELSE m[x]]

EmptyMap == [x \in {} |-> TRUE]

(* --------------------------- diagnostics ------------------------------- *)
kUndefFunction == "Cannot find definition of function "
kRedefineFunction == "Definition already exists for function "
kRedefineGlobal == "Definition already exists for global variable "
kInvalidProfile == " is invalid profile to link"
kShaderKindMismatch == "Profile mismatch between entry function and target profile:"
kNoEntryProps == "Cannot find function property for entry function "
kRefineResource == "Resource already exists as "

(* ------------------------ input shader modules ------------------------- *)
\* a function of an input module: a definition or a declaration, the
\* functions its call instructions call, its shader kind ("none": no
\* function properties) and, for a hull shader, its patch constant function
Func(nm, internal, decl, calls, kind, pcf) ==
  [name |-> nm, internal |-> internal, decl |-> decl, calls |-> calls,
   kind |-> kind, pcf |-> pcf]

Def(nm, calls, kind) == Func(nm, FALSE, FALSE, calls, kind, "")
Decl(nm) == Func(nm, FALSE, TRUE, {}, "none", "")

\* a global variable and the functions whose instructions use it
Global(nm, internal, users) == [name |-> nm, internal |-> internal, users |-> users]

\* a resource of the module's resource tables: class, global name, the type
\* of its global symbol, the global holding its range id and, of the fields
\* the linker only copies, the register space
Resource(class, gname, type, rangeID) ==
  [class |-> class, name |-> gname, type |-> type, rangeID |-> rangeID, space |-> 0]

ModA ==
  [functions |-> {Def("main", {"helper", "dx.op.sqrt"}, "vertex"),
                  Func("foo", FALSE, FALSE, {}, "hull", "helper"),
                  Func("init", TRUE, FALSE, {}, "none", ""),
                  Func("binit", TRUE, FALSE, {}, "none", ""),
                  Decl("helper"), Decl("dx.op.sqrt")},
   globals |-> {Global("g", FALSE, {"main", "init"}),
                Global("tA", FALSE, {"main"}),
                Global("sA", FALSE, {"main"}),
                Global("tE", FALSE, {"foo"})},
   resources |-> {Resource("SRV", "tex", "float4", "tA"),
                  Resource("Sampler", "samp", "sampler", "sA")},
   ctors |-> {"init"}]

ModB ==
  [functions |-> {Def("helper", {"helper", "dx.op.sqrt"}, "none"),
                  Decl("dx.op.sqrt")},
   globals |-> {Global("g", FALSE, {"helper"}),
                Global("tA", FALSE, {"helper"}),
                Global("sB", FALSE, {"helper"})},
   resources |-> {Resource("SRV", "tex", "int4", "tA"),
                  Resource("Sampler", "samp", "cmpsampler", "sB")},
   ctors |-> {}]

ModC ==
  [functions |-> {Func("helper", FALSE, FALSE, {"dx.op.sqrt", "leaf"}, "hull", "bar"),
                  Def("main", {"dx.op.sqrt"}, "pixel"),
                  Def("foo", {}, "library"),
                  Decl("dx.op.sqrt"), Decl("leaf"), Decl("bar")},
   globals |-> {Global("tC", FALSE, {"main"})},
   resources |-> {Resource("CBuffer", "cb", "struct", "tC")},
   ctors |-> {}]

ModD ==
  [functions |-> {Func("helper", FALSE, FALSE, {"leaf"}, "hull", "leaf"),
                  Def("leaf", {"helper", "dx.op.sqrt"}, "none"),
                  Func("init", TRUE, FALSE, {}, "none", ""),
                  Decl("dx.op.sqrt")},
   globals |-> {Global("tA", FALSE, {"helper", "leaf"}),
                Global("gd", TRUE, {"init"})},
   resources |-> {[Resource("SRV", "tex", "float4", "tA") EXCEPT !.space = 1]},
   ctors |-> {"init"}]

ModE ==
  [functions |-> {Def("helper", {}, "none")},
   globals |-> {Global("tE", FALSE, {"helper"})},
   resources |-> {Resource("UAV", "tex", "float4", "tE")},
   ctors |-> {}]

\* the modules a client may register
Modules == {ModA, ModB, ModC, ModD, ModE}

\* the debug modules a client may pass along
DebugModules == {ModE}

(* ------------------------------ DxilLib -------------------------------- *)
\* the name prefix of the shader-operation intrinsics
m_NamePrefix == "dx.op."

\* OP::IsDxilOpFunc: the naming predicate of the intrinsic table
IsDxilOpFunc(name) ==
  /\ Len(name) >= Len(m_NamePrefix)
  /\ SubSeq(name, 1, Len(m_NamePrefix)) = m_NamePrefix

\* FuncName that leaves an internal definition its name
FuncNameNoPrefix(MID, f) == f.name

\* the name a function carries once the library is indexed: internal
\* definitions get the module identifier as a prefix
FuncName(MID, f) == IF ~f.decl /\ f.internal THEN MID \o f.name ELSE f.name

\* the name a global carries once the library is indexed
GlobalName(MID, gv) == IF gv.internal THEN MID \o gv.name ELSE gv.name

\* the function of module M that is called nm in the module's source
FuncOf(M, nm) == CHOOSE f \in M.functions : f.name = nm

\* CollectUsedFunctions for a global: the functions whose instructions use it
CollectUsedFunctions(gv) == gv.users

\* DxilLib that leaves the call sets as the call instructions give them: no
\* initializer is added to the users of its globals
DxilLibNoCtors(MID, M) ==
  LET name(nm) == FuncName(MID, FuncOf(M, nm))
      defs == {f \in M.functions : ~f.decl}
      calls(f) == {name(c) : c \in f.calls}
      patch(f) == IF f.kind = "hull" THEN {name(f.pcf)} ELSE {}
      gvs(f) == {gv \in M.globals : f.name \in CollectUsedFunctions(gv)}
      initFuncSet == {FuncOf(M, c) : c \in M.ctors}
      info(f) == [usedFunctions |-> calls(f) \cup patch(f),
                  usedGVs |-> {GlobalName(MID, gv) : gv \in gvs(f)}]
      final(nm) == CHOOSE f \in M.functions : FuncName(MID, f) = nm
      resOf(nm) == CHOOSE r \in M.resources :
                     \E gv \in M.globals : gv.name = r.rangeID /\ GlobalName(MID, gv) = nm
  IN [id |-> MID,
      functions |-> [nm \in {FuncName(MID, f) : f \in M.functions} |->
                       [decl |-> final(nm).decl, kind |-> final(nm).kind,
                        pcf |-> IF final(nm).kind = "hull" THEN name(final(nm).pcf) ELSE ""]],
      m_functionNameMap |-> [nm \in {FuncName(MID, f) : f \in defs} |-> info(final(nm))],
      m_resourceMap |-> [nm \in {GlobalName(MID, gv) : gv \in
                          {x \in M.globals : \E r \in M.resources : r.rangeID = x.name}} |->
                          resOf(nm)],
      m_initFuncSet |-> {FuncName(MID, c) : c \in initFuncSet}]

\* DxilLib that leaves the patch-constant function of a hull shader out of
\* the usedFunctions of the shader
DxilLibNoPatch(MID, M) ==
  LET name(nm) == FuncName(MID, FuncOf(M, nm))
      defs == {f \in M.functions : ~f.decl}
      calls(f) == {name(c) : c \in f.calls}
      gvs(f) == {gv \in M.globals : f.name \in CollectUsedFunctions(gv)}
      initFuncSet == {FuncOf(M, c) : c \in M.ctors}
      ctorsFor(f) == {c \in initFuncSet : c # f /\ gvs(c) \cap gvs(f) # {}}
      info(f) == [usedFunctions |-> calls(f) \cup {FuncName(MID, c) : c \in ctorsFor(f)},
                  usedGVs |-> {GlobalName(MID, gv) : gv \in gvs(f)}]
      final(nm) == CHOOSE f \in M.functions : FuncName(MID, f) = nm
      resOf(nm) == CHOOSE r \in M.resources :
                     \E gv \in M.globals : gv.name = r.rangeID /\ GlobalName(MID, gv) = nm
  IN [id |-> MID,
      functions |-> [nm \in {FuncName(MID, f) : f \in M.functions} |->
                       [decl |-> final(nm).decl, kind |-> final(nm).kind,
                        pcf |-> IF final(nm).kind = "hull" THEN name(final(nm).pcf) ELSE ""]],
      m_functionNameMap |-> [nm \in {FuncName(MID, f) : f \in defs} |-> info(final(nm))],
      m_resourceMap |-> [nm \in {GlobalName(MID, gv) : gv \in
                          {x \in M.globals : \E r \in M.resources : r.rangeID = x.name}} |->
                          resOf(nm)],
      m_initFuncSet |-> {FuncName(MID, c) : c \in initFuncSet}]

\* DxilLib::DxilLib: the index of module M registered as MID.
\*   functions         every function of the module by its final name
\*   m_functionNameMap the link-info (usedFunctions, usedGVs) of each definition
\*   m_resourceMap     range-id global -> resource
\*   m_initFuncSet     the static initializers of llvm.global_ctors
DxilLib(MID, M) ==
  LET name(nm) == FuncName(MID, FuncOf(M, nm))
      defs == {f \in M.functions : ~f.decl}
      calls(f) == {name(c) : c \in f.calls}
      patch(f) == IF f.kind = "hull" THEN {name(f.pcf)} ELSE {}
      gvs(f) == {gv \in M.globals : f.name \in CollectUsedFunctions(gv)}
      initFuncSet == {FuncOf(M, c) : c \in M.ctors}
      \* the initializers whose globals f uses too
      ctorsFor(f) == {c \in initFuncSet : c # f /\ gvs(c) \cap gvs(f) # {}}
      info(f) == [usedFunctions |-> calls(f) \cup patch(f)
                                      \cup {FuncName(MID, c) : c \in ctorsFor(f)},
                  usedGVs |-> {GlobalName(MID, gv) : gv \in gvs(f)}]
      final(nm) == CHOOSE f \in M.functions : FuncName(MID, f) = nm
      resOf(nm) == CHOOSE r \in M.resources :
                     \E gv \in M.globals : gv.name = r.rangeID /\ GlobalName(MID, gv) = nm
  IN [id |-> MID,
      functions |-> [nm \in {FuncName(MID, f) : f \in M.functions} |->
                       [decl |-> final(nm).decl, kind |-> final(nm).kind,
                        pcf |-> IF final(nm).kind = "hull" THEN name(final(nm).pcf) ELSE ""]],
      m_functionNameMap |-> [nm \in {FuncName(MID, f) : f \in defs} |-> info(final(nm))],
      m_resourceMap |-> [nm \in {GlobalName(MID, gv) : gv \in
                          {x \in M.globals : \E r \in M.resources : r.rangeID = x.name}} |->
                          resOf(nm)],
      m_initFuncSet |-> {FuncName(MID, c) : c \in initFuncSet}]

\* DxilLib::IsInitFunc
IsInitFunc(lib, F) == F \in lib.m_initFuncSet

\* DxilLib::IsResourceGlobal
IsResourceGlobal(lib, GV) == GV \in DOMAIN lib.m_resourceMap

(* ------------------------------- state --------------------------------- *)
VARIABLES
  m_LibMap,           \* DxilLinkerImpl: library name -> DxilLib
  m_attachedLibs,     \* DxilLinkerImpl: the attached libraries (by name)
  m_functionNameMap,  \* DxilLinkerImpl: function name -> (link-info, library)
  errs,               \* the diagnostics m_ctx received from the current call
  call,               \* the facade call in progress or last completed (for
                      \* DetachAll with the libraries it found attached)
  ret,                \* what the last completed call returned
  pc,                 \* position inside Link, "idle" between calls
  frame,              \* Link: the locals of the two Link functions
  linkJob,            \* Link: the members of the DxilLinkJob
  pM                  \* Link: the output module under construction

linker == <<m_LibMap, m_attachedLibs, m_functionNameMap>>
link == <<frame, linkJob, pM>>
vars == <<m_LibMap, m_attachedLibs, m_functionNameMap, errs, call, ret, pc,
          frame, linkJob, pM>>

\* no Link in progress: no link job, no locals, no output module
NoFrame == [entry |-> "", profile |-> "", workList |-> <<>>, addedFunctionSet |-> {},
            order |-> <<>>, it |-> 0, vmap |-> EmptyMap, initFuncSet |-> {},
            bSuccess |-> TRUE]
NoJob == [m_functionDefs |-> EmptyMap, m_dxilFunctions |-> EmptyMap,
          m_newFunctions |-> EmptyMap, m_newGlobals |-> EmptyMap,
          m_resourceMap |-> EmptyMap]

\* an absent module (a null unique_ptr)
Null == [null |-> TRUE]

\* between two calls nothing of a Link is alive: the job and the locals are
\* destroyed and the caller has taken the module the last Link returned
NoLink == frame' = NoFrame /\ linkJob' = NoJob /\ pM' = Null

\* a registry entry: the link-info pointer and the owning library
LinkPair(lib, name) == [info |-> <<lib, name>>, lib |-> lib]

Init ==
  /\ m_LibMap = EmptyMap
  /\ m_attachedLibs = {}
  /\ m_functionNameMap = EmptyMap
  /\ errs = <<>>
  /\ call = [op |-> "CreateLinker"]
  /\ ret = TRUE
  /\ pc = "idle"
  /\ frame = NoFrame
  /\ linkJob = NoJob
  /\ pM = Null

(* --------------------------- DxilLinkerImpl ---------------------------- *)
\* RegisterLib(name, pModule, pDebugModule)
RegisterLibResult(libMap, name, pModule, pDebugModule) ==
  LET module == IF pDebugModule # Null THEN pDebugModule ELSE pModule
  IN IF name \in DOMAIN libMap THEN [ret |-> FALSE, libMap |-> libMap]
     ELSE IF module = Null THEN [ret |-> FALSE, libMap |-> libMap]
     ELSE [ret |-> TRUE, libMap |-> Put(libMap, name, DxilLib(name, module))]

RegisterLib(name, pModule, pDebugModule) ==
  /\ pc = "idle"
  /\ LET r == RegisterLibResult(m_LibMap, name, pModule, pDebugModule)
     IN /\ m_LibMap' = r.libMap
        /\ ret' = r.ret
  /\ errs' = <<>>
  /\ call' = [op |-> "RegisterLib", name |-> name]
  /\ UNCHANGED <<m_attachedLibs, m_functionNameMap, pc>>
  /\ NoLink

\* AttachInsert that stores the pair of lib even when the name is taken
RECURSIVE AttachInsertOverwrite(_, _, _, _)
AttachInsertOverwrite(st, lib, order, i) ==
  IF i > Len(order) THEN st
  ELSE LET name == order[i]
       IN IF name \in DOMAIN st.fnMap
          THEN AttachInsertOverwrite(
                 [st EXCEPT !.errs = Append(@, kRedefineFunction \o name),
                            !.bSuccess = FALSE,
                            !.fnMap = Put(@, name, LinkPair(lib, name))],
                 lib, order, i + 1)
          ELSE AttachInsertOverwrite(
                 [st EXCEPT !.fnMap = Put(@, name, LinkPair(lib, name))],
                 lib, order, i + 1)

\* AttachInsert that leaves the loop at the first name the registry has
RECURSIVE AttachInsertBreak(_, _, _, _)
AttachInsertBreak(st, lib, order, i) ==
  IF i > Len(order) THEN st
  ELSE LET name == order[i]
       IN IF name \in DOMAIN st.fnMap
          THEN [st EXCEPT !.errs = Append(@, kRedefineFunction \o name),
                          !.bSuccess = FALSE]
          ELSE AttachInsertBreak([st EXCEPT !.fnMap = Put(@, name, LinkPair(lib, name))],
                                 lib, order, i + 1)

\* AttachLib(DxilLib*), first loop: every name of funcTable, in the table's
\* order, is reported when the registry has it and inserted otherwise
RECURSIVE AttachInsert(_, _, _, _)
AttachInsert(st, lib, order, i) ==
  IF i > Len(order) THEN st
  ELSE LET name == order[i]
       IN IF name \in DOMAIN st.fnMap
          THEN AttachInsert([st EXCEPT !.errs = Append(@, kRedefineFunction \o name),
                                       !.bSuccess = FALSE], lib, order, i + 1)
          ELSE AttachInsert([st EXCEPT !.fnMap = Put(@, name, LinkPair(lib, name))],
                            lib, order, i + 1)

\* AttachRollback that erases the names of funcTable whoever owns them
RECURSIVE AttachRollbackAnyOwner(_, _, _, _)
AttachRollbackAnyOwner(fnMap, lib, order, i) ==
  IF i > Len(order) THEN fnMap
  ELSE AttachRollbackAnyOwner(Erase(fnMap, order[i]), lib, order, i + 1)

\* AttachRollback that erases nothing
AttachRollbackNone(fnMap, lib, order, i) == fnMap

\* AttachLib(DxilLib*), the loop of the failure branch: the names of funcTable
\* that the registry maps to lib are erased
RECURSIVE AttachRollback(_, _, _, _)
AttachRollback(fnMap, lib, order, i) ==
  IF i > Len(order) THEN fnMap
  ELSE LET name == order[i]
       IN IF name \notin DOMAIN fnMap THEN AttachRollback(fnMap, lib, order, i + 1)
          ELSE IF fnMap[name].lib = lib
               THEN AttachRollback(Erase(fnMap, name), lib, order, i + 1)
               ELSE AttachRollback(fnMap, lib, order, i + 1)

\* AttachLibImpl without the test for a library that is attached already
AttachLibImplNoAttachedCheck(libMap, attached, fnMap, lib, order) ==
  LET st == AttachInsert([fnMap |-> fnMap, errs |-> <<>>, bSuccess |-> TRUE],
                         lib, order, 1)
  IN IF st.bSuccess
     THEN [ret |-> TRUE, attached |-> attached \cup {lib},
           fnMap |-> st.fnMap, errs |-> st.errs]
     ELSE [ret |-> FALSE, attached |-> attached,
           fnMap |-> AttachRollback(st.fnMap, lib, order, 1), errs |-> st.errs]

\* AttachLib(DxilLib*) for the library registered as lib, whose function table
\* is iterated in the given order
AttachLibImpl(libMap, attached, fnMap, lib, order) ==
  IF lib \in attached
  THEN [ret |-> FALSE, attached |-> attached, fnMap |-> fnMap, errs |-> <<>>]
  ELSE LET st == AttachInsert([fnMap |-> fnMap, errs |-> <<>>, bSuccess |-> TRUE],
                              lib, order, 1)
       IN IF st.bSuccess
          THEN [ret |-> TRUE, attached |-> attached \cup {lib},
                fnMap |-> st.fnMap, errs |-> st.errs]
          ELSE [ret |-> FALSE, attached |-> attached,
                fnMap |-> AttachRollback(st.fnMap, lib, order, 1), errs |-> st.errs]

\* AttachLib(StringRef name)
AttachLib(name) ==
  /\ pc = "idle"
  /\ IF name \notin DOMAIN m_LibMap
     THEN /\ ret' = FALSE
          /\ errs' = <<>>
          /\ UNCHANGED <<m_attachedLibs, m_functionNameMap>>
     ELSE \E order \in Orders(DOMAIN m_LibMap[name].m_functionNameMap) :
            LET r == AttachLibImpl(m_LibMap, m_attachedLibs, m_functionNameMap, name, order)
            IN /\ ret' = r.ret
               /\ errs' = r.errs
               /\ m_attachedLibs' = r.attached
               /\ m_functionNameMap' = r.fnMap
  /\ call' = [op |-> "AttachLib", name |-> name]
  /\ UNCHANGED <<m_LibMap, pc>>
  /\ NoLink

\* DetachErase that erases nothing
DetachEraseNone(fnMap, order, i) == fnMap

\* DetachLib(DxilLib*), the loop: every name of funcTable is erased
RECURSIVE DetachErase(_, _, _)
DetachErase(fnMap, order, i) ==
  IF i > Len(order) THEN fnMap
  ELSE DetachErase(Erase(fnMap, order[i]), order, i + 1)

\* DetachLib(DxilLib*)
DetachLibImpl(attached, fnMap, lib, order) ==
  IF lib \notin attached
  THEN [ret |-> FALSE, attached |-> attached, fnMap |-> fnMap]
  ELSE [ret |-> TRUE, attached |-> attached \ {lib},
        fnMap |-> DetachErase(fnMap, order, 1)]

\* DetachLib(StringRef name)
DetachLib(name) ==
  /\ pc = "idle"
  /\ IF name \notin DOMAIN m_LibMap
     THEN /\ ret' = FALSE
          /\ UNCHANGED <<m_attachedLibs, m_functionNameMap>>
     ELSE \E order \in Orders(DOMAIN m_LibMap[name].m_functionNameMap) :
            LET r == DetachLibImpl(m_attachedLibs, m_functionNameMap, name, order)
            IN /\ ret' = r.ret
               /\ m_attachedLibs' = r.attached
               /\ m_functionNameMap' = r.fnMap
  /\ errs' = <<>>
  /\ call' = [op |-> "DetachLib", name |-> name]
  /\ UNCHANGED <<m_LibMap, pc>>
  /\ NoLink

\* DetachAll that clears the attached set and leaves the registry
DetachAllKeepsRegistry ==
  /\ pc = "idle"
  /\ m_attachedLibs' = {}
  /\ errs' = <<>>
  /\ ret' = TRUE
  /\ call' = [op |-> "DetachAll", detached |-> m_attachedLibs]
  /\ UNCHANGED <<m_LibMap, m_functionNameMap, pc>>
  /\ NoLink

\* DetachAll()
DetachAll ==
  /\ pc = "idle"
  /\ m_functionNameMap' = EmptyMap
  /\ m_attachedLibs' = {}
  /\ errs' = <<>>
  /\ ret' = TRUE
  /\ call' = [op |-> "DetachAll", detached |-> m_attachedLibs]
  /\ UNCHANGED <<m_LibMap, pc>>
  /\ NoLink

(* ------------------------- DxilLinkerImpl::Link ------------------------ *)
\* a pointer to a function, global or link-info of the library registered as lib
Ptr(lib, name) == <<lib, name>>

\* the function or global called name of the output module
New(name) == <<"pM", name>>

\* Link(entry, profile) up to the while loop
LinkBegin(entry, profile) ==
  /\ pc = "idle"
  /\ call' = [op |-> "Link", entry |-> entry, profile |-> profile]
  /\ errs' = <<>>
  /\ frame' = [NoFrame EXCEPT !.entry = entry, !.profile = profile,
                              !.workList = <<entry>>]
  /\ linkJob' = NoJob
  /\ pM' = Null
  /\ pc' = "closure"
  /\ UNCHANGED <<linker, ret>>

\* PushUsed that assigns the callee to the work list instead of appending it
RECURSIVE PushUsedAssign(_, _, _, _)
PushUsedAssign(st, lib, used, i) ==
  IF i > Len(used) THEN st
  ELSE IF IsDxilOpFunc(used[i])
       THEN PushUsedAssign([st EXCEPT !.dxil = Put(@, used[i], Ptr(lib, used[i]))],
                           lib, used, i + 1)
       ELSE PushUsedAssign([st EXCEPT !.workList = <<used[i]>>], lib, used, i + 1)

\* PushUsed that handles the first function of the iteration only
PushUsedFirstOnly(st, lib, used, i) ==
  IF used = <<>> THEN st
  ELSE IF IsDxilOpFunc(used[1])
       THEN [st EXCEPT !.dxil = Put(@, used[1], Ptr(lib, used[1]))]
       ELSE [st EXCEPT !.workList = Append(@, used[1])]

\* PushUsed that pushes every function of the iteration on the work list
RECURSIVE PushUsedAll(_, _, _, _)
PushUsedAll(st, lib, used, i) ==
  IF i > Len(used) THEN st
  ELSE PushUsedAll([st EXCEPT !.workList = Append(@, used[i])], lib, used, i + 1)

\* the for loop over usedFunctions of one iteration of the while loop: the
\* shader operations go to the job, the other names on the work list
RECURSIVE PushUsed(_, _, _, _)
PushUsed(st, lib, used, i) ==
  IF i > Len(used) THEN st
  ELSE IF IsDxilOpFunc(used[i])
       THEN PushUsed([st EXCEPT !.dxil = Put(@, used[i], Ptr(lib, used[i]))],
                     lib, used, i + 1)
       ELSE PushUsed([st EXCEPT !.workList = Append(@, used[i])], lib, used, i + 1)

\* LinkWhileBody that reports a missing name and goes on with the work list
LinkWhileBodyNoReturn(fnMap, libMap, fr, job, used) ==
  LET name == fr.workList[Len(fr.workList)]
      popped == SubSeq(fr.workList, 1, Len(fr.workList) - 1)
  IN IF name \in fr.addedFunctionSet
     THEN [fnMap |-> fnMap, failed |-> FALSE, errs |-> <<>>, job |-> job,
           frame |-> [fr EXCEPT !.workList = popped]]
     ELSE IF name \notin DOMAIN fnMap
     THEN [fnMap |-> fnMap, failed |-> FALSE, errs |-> <<kUndefFunction \o name>>,
           job |-> job, frame |-> [fr EXCEPT !.workList = popped]]
     ELSE LET linkPair == fnMap[name]
              st == PushUsed([workList |-> popped, dxil |-> job.m_dxilFunctions],
                             linkPair.lib, used, 1)
          IN [fnMap |-> fnMap, failed |-> FALSE, errs |-> <<>>,
              job |-> [job EXCEPT
                         !.m_functionDefs = Put(@, linkPair.info, linkPair.lib),
                         !.m_dxilFunctions = st.dxil],
              frame |-> [fr EXCEPT !.workList = st.workList,
                                   !.addedFunctionSet = @ \cup {name}]]

\* LinkWhileBody that reads m_functionNameMap[name] before it tests the name:
\* operator[] inserts an empty pair for a name the registry does not have
LinkWhileBodyInsert(fnMap, libMap, fr, job, used) ==
  LET name == fr.workList[Len(fr.workList)]
      popped == SubSeq(fr.workList, 1, Len(fr.workList) - 1)
  IN IF name \in fr.addedFunctionSet
     THEN [fnMap |-> fnMap, failed |-> FALSE, errs |-> <<>>, job |-> job,
           frame |-> [fr EXCEPT !.workList = popped]]
     ELSE IF name \notin DOMAIN fnMap
     THEN [fnMap |-> Put(fnMap, name, [info |-> Ptr("", ""), lib |-> ""]),
           failed |-> TRUE, errs |-> <<kUndefFunction \o name>>,
           job |-> job, frame |-> [fr EXCEPT !.workList = popped]]
     ELSE LET linkPair == fnMap[name]
              st == PushUsed([workList |-> popped, dxil |-> job.m_dxilFunctions],
                             linkPair.lib, used, 1)
          IN [fnMap |-> fnMap, failed |-> FALSE, errs |-> <<>>,
              job |-> [job EXCEPT
                         !.m_functionDefs = Put(@, linkPair.info, linkPair.lib),
                         !.m_dxilFunctions = st.dxil],
              frame |-> [fr EXCEPT !.workList = st.workList,
                                   !.addedFunctionSet = @ \cup {name}]]

\* LinkWhileBody that never puts a name into addedFunctionSet
LinkWhileBodyNoVisited(fnMap, libMap, fr, job, used) ==
  LET name == fr.workList[Len(fr.workList)]
      popped == SubSeq(fr.workList, 1, Len(fr.workList) - 1)
  IN IF name \in fr.addedFunctionSet
     THEN [fnMap |-> fnMap, failed |-> FALSE, errs |-> <<>>, job |-> job,
           frame |-> [fr EXCEPT !.workList = popped]]
     ELSE IF name \notin DOMAIN fnMap
     THEN [fnMap |-> fnMap, failed |-> TRUE, errs |-> <<kUndefFunction \o name>>,
           job |-> job, frame |-> [fr EXCEPT !.workList = popped]]
     ELSE LET linkPair == fnMap[name]
              st == PushUsed([workList |-> popped, dxil |-> job.m_dxilFunctions],
                             linkPair.lib, used, 1)
          IN [fnMap |-> fnMap, failed |-> FALSE, errs |-> <<>>,
              job |-> [job EXCEPT
                         !.m_functionDefs = Put(@, linkPair.info, linkPair.lib),
                         !.m_dxilFunctions = st.dxil],
              frame |-> [fr EXCEPT !.workList = st.workList]]

\* one iteration of the while loop of Link; used(info) is the order in which
\* the usedFunctions of the link-info are iterated
LinkWhileBody(fnMap, libMap, fr, job, used) ==
  LET name == fr.workList[Len(fr.workList)]
      popped == SubSeq(fr.workList, 1, Len(fr.workList) - 1)
  IN IF name \in fr.addedFunctionSet
     THEN [fnMap |-> fnMap, failed |-> FALSE, errs |-> <<>>, job |-> job,
           frame |-> [fr EXCEPT !.workList = popped]]
     ELSE IF name \notin DOMAIN fnMap
     THEN [fnMap |-> fnMap, failed |-> TRUE, errs |-> <<kUndefFunction \o name>>,
           job |-> job, frame |-> [fr EXCEPT !.workList = popped]]
     ELSE LET linkPair == fnMap[name]
              st == PushUsed([workList |-> popped, dxil |-> job.m_dxilFunctions],
                             linkPair.lib, used, 1)
          IN [fnMap |-> fnMap, failed |-> FALSE, errs |-> <<>>,
              job |-> [job EXCEPT
                         !.m_functionDefs = Put(@, linkPair.info, linkPair.lib),
                         !.m_dxilFunctions = st.dxil],
              frame |-> [fr EXCEPT !.workList = st.workList,
                                   !.addedFunctionSet = @ \cup {name}]]

\* the usedFunctions of the link-info the registry has for name
UsedFunctions(fnMap, libMap, name) ==
  IF name \in DOMAIN fnMap /\ fnMap[name].lib \in DOMAIN libMap
     /\ fnMap[name].info[2] \in DOMAIN libMap[fnMap[name].lib].m_functionNameMap
  THEN libMap[fnMap[name].lib].m_functionNameMap[fnMap[name].info[2]].usedFunctions
  ELSE {}

\* Link, one iteration of the while loop
LinkWhile ==
  /\ pc = "closure"
  /\ frame.workList # <<>>
  /\ \E used \in Orders(UsedFunctions(m_functionNameMap, m_LibMap,
                                      frame.workList[Len(frame.workList)])) :
       LET r == LinkWhileBody(m_functionNameMap, m_LibMap, frame, linkJob, used)
       IN /\ m_functionNameMap' = r.fnMap
          /\ errs' = errs \o r.errs
          /\ IF r.failed
             THEN /\ ret' = FALSE
                  /\ pc' = "idle"
                  /\ NoLink
             ELSE /\ frame' = r.frame
                  /\ linkJob' = r.job
                  /\ UNCHANGED <<ret, pc, pM>>
  /\ UNCHANGED <<m_LibMap, m_attachedLibs, call>>

(* --------------------------- DxilLinkJob::Link ------------------------- *)
\* ShaderModel::GetByName(profile)->GetKind(); an unknown profile gives the
\* invalid shader model
GetKind(profile) ==
  CASE profile = "vs_6_0" -> "vertex"
    [] profile = "ps_6_0" -> "pixel"
    [] profile = "hs_6_0" -> "hull"
    [] OTHER -> "invalid"

\* ShaderModel::GetKindName(kind)
GetKindName(kind) == kind

\* NewFunction that marks every function it creates AlwaysInline
NewFunctionInline(alwaysInline) ==
  [AlwaysInline |-> TRUE, cloned |-> FALSE, usedFunctions |-> {},
   usedGVs |-> {}, entryBlock |-> <<>>]

\* a function of the output module as Function::Create leaves it
NewFunction(alwaysInline) ==
  [AlwaysInline |-> alwaysInline, cloned |-> FALSE, usedFunctions |-> {},
   usedGVs |-> {}, entryBlock |-> <<>>]

\* JobEnter that compares the profile with the entry before it rejects the
\* library and invalid kinds
JobEnterKindFirst(fnMap, libMap, fr, job, order) ==
  LET entryLinkPair == fnMap[fr.entry]
      entryFunc == entryLinkPair.info[2]
      props == libMap[entryLinkPair.lib].functions[entryFunc]
      fail(msg) == [failed |-> TRUE, errs |-> <<msg>>, frame |-> fr, job |-> job,
                    pM |-> Null]
  IN IF props.kind = "none" THEN fail(kNoEntryProps \o entryFunc)
     ELSE IF GetKind(fr.profile) # props.kind
     THEN fail(kShaderKindMismatch \o fr.profile \o " and " \o GetKindName(props.kind))
     ELSE fail(fr.profile \o kInvalidProfile)

\* DxilLinkJob::Link from its first line to "Set EntryProps": validation of the
\* entry, the new module, the declarations of the shader operations and of the
\* functions of m_functionDefs (iterated in the given order), the entry
JobEnter(fnMap, libMap, fr, job, order) ==
  LET entryLinkPair == fnMap[fr.entry]
      entryFunc == entryLinkPair.info[2]
      props == libMap[entryLinkPair.lib].functions[entryFunc]
      fail(msg) == [failed |-> TRUE, errs |-> <<msg>>, frame |-> fr, job |-> job,
                    pM |-> Null]
  IN IF props.kind = "none" THEN fail(kNoEntryProps \o entryFunc)
     ELSE IF props.kind \in {"library", "invalid"}
     THEN fail(fr.profile \o kInvalidProfile)
     ELSE IF GetKind(fr.profile) # props.kind
     THEN fail(kShaderKindMismatch \o fr.profile \o " and " \o GetKindName(props.kind))
     ELSE
       LET dxil == DOMAIN job.m_dxilFunctions
           defs == {p[2] : p \in DOMAIN job.m_functionDefs}
           newFunctions == [n \in dxil \cup defs |-> New(n)]
           \* every function of m_functionDefs is created AlwaysInline
           created == [n \in dxil \cup defs |-> NewFunction(n \in defs)]
           \* NewEntryFunc->removeFnAttr(AlwaysInline)
           withEntry == [created EXCEPT ![entryFunc].AlwaysInline = FALSE]
           \* newPatchConstantFunc->removeFnAttr(AlwaysInline)
           functions == IF props.kind = "hull"
                        THEN [withEntry EXCEPT ![props.pcf].AlwaysInline = FALSE]
                        ELSE withEntry
       IN [failed |-> FALSE, errs |-> <<>>,
           frame |-> [fr EXCEPT
              !.order = order, !.it = 1,
              !.vmap = [p \in DOMAIN job.m_functionDefs |-> New(p[2])],
              !.initFuncSet = {New(p[2]) : p \in
                  {q \in DOMAIN job.m_functionDefs :
                     IsInitFunc(libMap[job.m_functionDefs[q]], q[2])}}],
           job |-> [job EXCEPT !.m_newFunctions = newFunctions],
           pM |-> [name |-> entryFunc, shaderModel |-> fr.profile,
                   functions |-> functions, globals |-> {},
                   entryFunction |-> newFunctions[entryFunc],
                   shaderKind |-> props.kind,
                   patchConstantFunc |->
                     IF props.kind = "hull" THEN newFunctions[props.pcf] ELSE Null,
                   resources |-> <<>>, rangeID |-> EmptyMap, log |-> <<>>,
                   asserts |-> {}]]

\* Link once the work list is empty: the call of linkJob.Link and its part up
\* to the loop over the globals
LinkJobEnter ==
  /\ pc = "closure"
  /\ frame.workList = <<>>
  /\ \E order \in Orders(DOMAIN linkJob.m_functionDefs) :
       LET r == JobEnter(m_functionNameMap, m_LibMap, frame, linkJob, order)
       IN /\ errs' = errs \o r.errs
          /\ IF r.failed
             THEN /\ ret' = FALSE
                  /\ pc' = "idle"
                  /\ NoLink
             ELSE /\ frame' = r.frame
                  /\ linkJob' = r.job
                  /\ pM' = r.pM
                  /\ pc' = "globals"
                  /\ UNCHANGED ret
  /\ UNCHANGED <<linker, call>>

\* DxilResourceBase::GetResClassName
GetResClassName(res) == res.class

\* AddResource that stores the pair of a matching resource over the one the
\* table has
AddResourceLastWins(resMap, res, GV) ==
  IF res.name \in DOMAIN resMap /\ res.type # resMap[res.name].res.type
  THEN [ret |-> FALSE, resMap |-> resMap,
        errs |-> <<kRefineResource \o GetResClassName(res) \o " for " \o res.name>>]
  ELSE [ret |-> TRUE, resMap |-> Put(resMap, res.name, [res |-> res, GV |-> GV]),
        errs |-> <<>>]

\* DxilLinkJob::AddResource(res, GV) on the resource map resMap
AddResource(resMap, res, GV) ==
  IF res.name \in DOMAIN resMap
  THEN LET res0 == resMap[res.name].res
           bMatch == res.type = res0.type
       IN IF ~bMatch
          THEN [ret |-> FALSE, resMap |-> resMap,
                errs |-> <<kRefineResource \o GetResClassName(res) \o " for " \o res.name>>]
          ELSE [ret |-> TRUE, resMap |-> resMap, errs |-> <<>>]
  ELSE [ret |-> TRUE, resMap |-> Put(resMap, res.name, [res |-> res, GV |-> GV]),
        errs |-> <<>>]

\* DxilLib::GetResource(GV) of the library registered as lib, Null when GV is
\* not a resource global; the descriptor carries its library, as a pointer does
GetResource(libMap, lib, GV) ==
  IF IsResourceGlobal(libMap[lib], GV)
  THEN [lib |-> lib] @@ libMap[lib].m_resourceMap[GV]
  ELSE Null

\* AddGlobal that does not map a global whose resource merged into the table
AddGlobalNoMap(st, libMap, pLib, GV) ==
  LET res == GetResource(libMap, pLib, GV)
  IN IF GV \in DOMAIN st.newGlobals
     THEN IF Ptr(pLib, GV) \notin DOMAIN st.vmap
          THEN IF res # Null
               THEN LET NewGV == st.newGlobals[GV]
                        r == AddResource(st.resMap, res, NewGV)
                    IN IF r.ret
                       THEN [st EXCEPT !.resMap = r.resMap]
                       ELSE [st EXCEPT !.bSuccess = FALSE, !.errs = @ \o r.errs]
               ELSE [st EXCEPT !.bSuccess = FALSE,
                               !.errs = Append(@, kRedefineGlobal \o GV)]
          ELSE st
     ELSE LET NewGV == New(GV)
              created == [st EXCEPT !.globals = @ \cup {GV},
                                    !.newGlobals = Put(@, GV, NewGV),
                                    !.vmap = Put(@, Ptr(pLib, GV), NewGV)]
          IN IF res # Null
             THEN LET r == AddResource(created.resMap, res, NewGV)
                  IN [created EXCEPT !.resMap = r.resMap,
                                     !.bSuccess = @ /\ r.ret,
                                     !.errs = @ \o r.errs]
             ELSE created

\* the body of the loop over linkInfo->usedGVs for the global GV of pLib.
\* st: vmap, m_newGlobals, m_resourceMap, the globals of pM, bSuccess, errs
AddGlobal(st, libMap, pLib, GV) ==
  LET res == GetResource(libMap, pLib, GV)
  IN IF GV \in DOMAIN st.newGlobals
     THEN IF Ptr(pLib, GV) \notin DOMAIN st.vmap
          THEN IF res # Null
               THEN LET NewGV == st.newGlobals[GV]
                        r == AddResource(st.resMap, res, NewGV)
                    IN IF r.ret
                       THEN [st EXCEPT !.vmap = Put(@, Ptr(pLib, GV), NewGV),
                                       !.resMap = r.resMap]
                       ELSE [st EXCEPT !.bSuccess = FALSE, !.errs = @ \o r.errs]
               ELSE [st EXCEPT !.bSuccess = FALSE,
                               !.errs = Append(@, kRedefineGlobal \o GV)]
          ELSE st
     ELSE LET NewGV == New(GV)
              created == [st EXCEPT !.globals = @ \cup {GV},
                                    !.newGlobals = Put(@, GV, NewGV),
                                    !.vmap = Put(@, Ptr(pLib, GV), NewGV)]
          IN IF res # Null
             THEN LET r == AddResource(created.resMap, res, NewGV)
                  IN [created EXCEPT !.resMap = r.resMap,
                                     !.bSuccess = @ /\ r.ret,
                                     !.errs = @ \o r.errs]
             ELSE created

\* AddGlobals that leaves the loop at the first failure
RECURSIVE AddGlobalsBreak(_, _, _, _, _)
AddGlobalsBreak(st, libMap, pLib, gvs, i) ==
  IF i > Len(gvs) \/ ~st.bSuccess THEN st
  ELSE AddGlobalsBreak(AddGlobal(st, libMap, pLib, gvs[i]), libMap, pLib, gvs, i + 1)

\* the loop over linkInfo->usedGVs, iterated in the order gvs
RECURSIVE AddGlobals(_, _, _, _, _)
AddGlobals(st, libMap, pLib, gvs, i) ==
  IF i > Len(gvs) THEN st
  ELSE AddGlobals(AddGlobal(st, libMap, pLib, gvs[i]), libMap, pLib, gvs, i + 1)

\* the link-info a pointer of m_functionDefs points to
LinkInfo(libMap, info) == libMap[info[1]].m_functionNameMap[info[2]]

\* "Add global": one iteration of the loop over m_functionDefs
LinkAddGlobals ==
  /\ pc = "globals"
  /\ frame.it <= Len(frame.order)
  /\ LET info == frame.order[frame.it]
         pLib == linkJob.m_functionDefs[info]
     IN \E gvs \in Orders(LinkInfo(m_LibMap, info).usedGVs) :
          LET st == AddGlobals([vmap |-> frame.vmap,
                                newGlobals |-> linkJob.m_newGlobals,
                                resMap |-> linkJob.m_resourceMap,
                                globals |-> pM.globals,
                                bSuccess |-> frame.bSuccess, errs |-> <<>>],
                               m_LibMap, pLib, gvs, 1)
          IN /\ frame' = [frame EXCEPT !.vmap = st.vmap, !.bSuccess = st.bSuccess,
                                       !.it = @ + 1]
             /\ linkJob' = [linkJob EXCEPT !.m_newGlobals = st.newGlobals,
                                           !.m_resourceMap = st.resMap]
             /\ pM' = [pM EXCEPT !.globals = st.globals]
             /\ errs' = errs \o st.errs
  /\ UNCHANGED <<linker, call, ret, pc>>

\* "if (!bSuccess) return nullptr" after the loop over the globals
LinkGlobalsDone ==
  /\ pc = "globals"
  /\ frame.it > Len(frame.order)
  /\ IF ~frame.bSuccess
     THEN /\ ret' = FALSE
          /\ pc' = "idle"
          /\ NoLink
     ELSE /\ frame' = [frame EXCEPT !.it = 1]
          /\ pc' = "clone"
          /\ UNCHANGED <<ret, linkJob, pM>>
  /\ UNCHANGED <<linker, call, errs>>

\* "Add dxil functions to vmap": the loop over linkInfo->usedFunctions before a
\* function of library lib is cloned.  A callee vmap does not have is looked
\* up by name in m_newFunctions; operator[] gives a null function on a miss
RECURSIVE MapUsedFunctions(_, _, _, _, _)
MapUsedFunctions(st, newFunctions, lib, used, i) ==
  IF i > Len(used) THEN st
  ELSE LET UsedF == Ptr(lib, used[i])
       IN IF UsedF \in DOMAIN st.vmap
          THEN MapUsedFunctions(st, newFunctions, lib, used, i + 1)
          ELSE IF used[i] \in DOMAIN newFunctions
          THEN MapUsedFunctions([st EXCEPT !.vmap = Put(@, UsedF, newFunctions[used[i]])],
                                newFunctions, lib, used, i + 1)
          ELSE MapUsedFunctions([st EXCEPT !.vmap = Put(@, UsedF, New("")),
                                           !.asserts = @ \cup {"Must have new function."}],
                                newFunctions, lib, used, i + 1)

\* what a reference to the value v becomes in a clone made with vmap: the
\* mapped value, or v itself when vmap does not have it
Remap(vmap, v) == IF v \in DOMAIN vmap THEN vmap[v] ELSE v

\* CloneFunction(F, NewF, vmap): the body of NewF refers to the images of the
\* functions and globals the body of F refers to; its entry block holds the
\* instructions cloned from F
CloneFunction(functions, vmap, lib, name, linkInfo) ==
  [functions EXCEPT ![name] =
     [@ EXCEPT !.cloned = TRUE,
               !.entryBlock = <<[op |-> "cloned", from |-> Ptr(lib, name)]>>,
               !.usedFunctions = {Remap(vmap, Ptr(lib, f)) : f \in linkInfo.usedFunctions},
               !.usedGVs = {Remap(vmap, Ptr(lib, gv)) : gv \in linkInfo.usedGVs}]]

\* "Clone functions": one iteration of the loop over m_functionDefs
LinkClone ==
  /\ pc = "clone"
  /\ frame.it <= Len(frame.order)
  /\ LET info == frame.order[frame.it]
         linkInfo == LinkInfo(m_LibMap, info)
     IN \E used \in Orders(linkInfo.usedFunctions) :
          LET st == MapUsedFunctions([vmap |-> frame.vmap, asserts |-> pM.asserts],
                                     linkJob.m_newFunctions, info[1], used, 1)
          IN /\ frame' = [frame EXCEPT !.vmap = st.vmap, !.it = @ + 1]
             /\ pM' = [pM EXCEPT
                         !.functions = CloneFunction(@, st.vmap, info[1], info[2], linkInfo),
                         !.asserts = st.asserts,
                         !.log = Append(@, "CloneFunction")]
  /\ UNCHANGED <<linker, call, ret, pc, errs, linkJob>>

\* CreateCall for a builder at the end of the block
CreateCallAtEnd(block, n, NewF) == Append(block, [op |-> "call", callee |-> NewF])

\* Builder.CreateCall(NewF) for a builder at getFirstInsertionPt() of the
\* block, after the n calls it has created already: the call goes in front of
\* the instruction that was first when the builder was made
CreateCall(block, n, NewF) ==
  SubSeq(block, 1, n) \o <<[op |-> "call", callee |-> NewF]>>
    \o SubSeq(block, n + 1, Len(block))

\* "Call global constrctor": the loop over m_functionDefs, in its order
RECURSIVE CallCtors(_, _, _, _, _, _)
CallCtors(block, n, libMap, job, order, i) ==
  IF i > Len(order) THEN block
  ELSE LET pLib == job.m_functionDefs[order[i]]
           F == order[i][2]
       IN IF IsInitFunc(libMap[pLib], F)
          THEN CallCtors(CreateCall(block, n, job.m_newFunctions[F]), n + 1,
                         libMap, job, order, i + 1)
          ELSE CallCtors(block, n, libMap, job, order, i + 1)

\* end of the clone loop and the loop that calls the global constructors
LinkCallCtors ==
  /\ pc = "clone"
  /\ frame.it > Len(frame.order)
  /\ pM' = [pM EXCEPT
              !.functions[pM.entryFunction[2]].entryBlock =
                 CallCtors(@, 0, m_LibMap, linkJob, frame.order, 1),
              !.log = Append(@, "CallCtors")]
  /\ pc' = "finish"
  /\ UNCHANGED <<linker, call, ret, errs, frame, linkJob>>

\* AddResourceToDM whose Sampler case only runs the default case: no
\* descriptor is added and the global is replaced by 0
RECURSIVE AddResourceToDMNoSampler(_, _, _, _)
AddResourceToDMNoSampler(dm, resMap, order, i) ==
  IF i > Len(order) THEN dm
  ELSE LET res == resMap[order[i]].res
           GV == resMap[order[i]].GV
           ID == IF res.class = "Sampler" THEN 0
                 ELSE Cardinality({k \in 1..Len(dm.resources) :
                                     dm.resources[k].class = res.class})
           added == IF res.class \in {"UAV", "SRV", "CBuffer"}
                    THEN Append(dm.resources,
                                [class |-> res.class, name |-> res.name,
                                 space |-> res.space, ID |-> ID])
                    ELSE dm.resources
       IN AddResourceToDMNoSampler([resources |-> added, asserts |-> dm.asserts,
                                    rangeID |-> Put(dm.rangeID, GV, ID)],
                                   resMap, order, i + 1)

\* DxilLinkJob::AddResourceToDM on the tables (resources) and the replaced
\* range-id globals (rangeID) of the module; m_resourceMap is iterated in the
\* given order, the new descriptor is a copy of the merged one and a table
\* gives it its size as ID
RECURSIVE AddResourceToDM(_, _, _, _)
AddResourceToDM(dm, resMap, order, i) ==
  IF i > Len(order) THEN dm
  ELSE LET res == resMap[order[i]].res
           GV == resMap[order[i]].GV
           ID == Cardinality({k \in 1..Len(dm.resources) :
                                dm.resources[k].class = res.class})
           added == IF res.class \in {"UAV", "SRV", "CBuffer", "Sampler"}
                    THEN Append(dm.resources,
                                [class |-> res.class, name |-> res.name,
                                 space |-> res.space, ID |-> ID])
                    ELSE dm.resources
           \* the Sampler case has no break: it runs the assertion of default
           asserts == IF res.class \in {"UAV", "SRV", "CBuffer"} \/ res.class = "Sampler"
                      THEN dm.asserts
                      ELSE dm.asserts \cup {"else invalid resource"}
       IN AddResourceToDM([resources |-> added, asserts |-> asserts,
                           rangeID |-> Put(dm.rangeID, GV, ID)],
                          resMap, order, i + 1)

\* RunPreparePass with dead-code elimination ahead of the always-inliner
RunPreparePassDCEFirst ==
  <<"DeadCodeElimination", "AlwaysInliner", "GlobalDCE", "SimplifyInst",
    "CFGSimplification", "DxilCondenseResources", "ComputeViewIdState",
    "DxilEmitMetadata">>

\* DxilLinkJob::RunPreparePass: the passes of the pass manager, in order
RunPreparePass ==
  <<"AlwaysInliner", "DeadCodeElimination", "GlobalDCE", "SimplifyInst",
    "CFGSimplification", "DxilCondenseResources", "ComputeViewIdState",
    "DxilEmitMetadata">>

\* the end of DxilLinkJob::Link: intrinsic cache, resources, passes, return pM
LinkFinish ==
  /\ pc = "finish"
  /\ \E order \in Orders(DOMAIN linkJob.m_resourceMap) :
       LET dm == AddResourceToDM([resources |-> pM.resources, asserts |-> pM.asserts,
                                  rangeID |-> pM.rangeID],
                                 linkJob.m_resourceMap, order, 1)
       IN pM' = [pM EXCEPT !.resources = dm.resources, !.rangeID = dm.rangeID,
                           !.asserts = dm.asserts,
                           !.log = @ \o <<"RefreshCache", "AddResourceToDM">>
                                     \o RunPreparePass]
  /\ ret' = TRUE
  /\ pc' = "idle"
  /\ frame' = NoFrame
  /\ linkJob' = NoJob
  /\ UNCHANGED <<linker, call, errs>>

Next ==
  \/ \E name \in LibNames, pModule \in Modules \cup {Null},
                           pDebugModule \in DebugModules \cup {Null} :
       /\ Cardinality(DOMAIN m_LibMap) < MaxLibs \/ name \in DOMAIN m_LibMap
       /\ RegisterLib(name, pModule, pDebugModule)
  \/ \E name \in LibNames : AttachLib(name)
  \/ \E name \in LibNames : DetachLib(name)
  \/ DetachAll
  \/ \E entry \in EntryNames, profile \in Profiles : LinkBegin(entry, profile)
  \/ LinkWhile
  \/ LinkJobEnter
  \/ LinkAddGlobals
  \/ LinkGlobalsDone
  \/ LinkClone
  \/ LinkCallCtors
  \/ LinkFinish

Spec == Init /\ [][Next]_vars

\* the while loop of Link keeps running: an iteration that can be made is made
LiveSpec == Init /\ [][Next]_vars /\ WF_vars(LinkWhile)

(* ------------------------------ properties ----------------------------- *)
\* a facade call that returned: the step it is (AttachLib, DetachLib, ...)
Returned(op) == pc = "idle" /\ call.op = op

\* the non-intrinsic names S reaches in one more call through the registry
RECURSIVE ReachFrom(_)
ReachFrom(S) ==
  LET next == S \cup {f \in UNION {UsedFunctions(m_functionNameMap, m_LibMap, n) : n \in S} :
                        ~IsDxilOpFunc(f)}
  IN IF next = S THEN S ELSE ReachFrom(next)

\* the names reachable from the entry of the Link in progress or last made
Reachable == ReachFrom({call.entry})

\* C1: an AttachLib that fails on a function name the registry already has
\* leaves the registry and the attached set as they were, the library not
\* attached, for every order of the library's function table
C1_FailedAttachRestoresRegistry ==
  [][(pc = "idle" /\ pc' = "idle" /\ call'.op = "AttachLib" /\ ~ret' /\ errs' # <<>>)
       => /\ m_functionNameMap' = m_functionNameMap
          /\ m_attachedLibs' = m_attachedLibs
          /\ call'.name \notin m_attachedLibs']_vars

\* C1 witness: a failed AttachLib of a library that also has names the registry
\* did not have (inserted, then rolled back) while another library is attached
C1_Witness ==
  /\ Returned("AttachLib") /\ ~ret /\ errs # <<>>
  /\ m_attachedLibs # {}
  /\ \E n \in DOMAIN m_LibMap[call.name].m_functionNameMap : n \notin DOMAIN m_functionNameMap

\* C2: every function name of every attached library is in the registry, with
\* that library's link-info and that library as owner
C2_AttachedNamesResolve ==
  \A L \in m_attachedLibs :
    /\ L \in DOMAIN m_LibMap
    /\ \A N \in DOMAIN m_LibMap[L].m_functionNameMap :
         /\ N \in DOMAIN m_functionNameMap
         /\ m_functionNameMap[N].info = Ptr(L, N)
         /\ m_functionNameMap[N].lib = L

\* C2 witness: two libraries attached and an AttachLib of a third registered
\* name failed, or a Link ran, with both still resolved
C2_Witness ==
  /\ Returned("Link")
  /\ Cardinality(m_attachedLibs) = 2
  /\ \E L1, L2 \in m_attachedLibs :
       L1 # L2 /\ DOMAIN m_LibMap[L1].m_functionNameMap # {}
               /\ DOMAIN m_LibMap[L2].m_functionNameMap # {}

\* the closure of a Link is complete: the work list ran empty
ClosureDone ==
  \/ pc = "closure" /\ frame.workList = <<>>
  \/ pc \in {"globals", "clone", "finish"}

\* C3: when the closure of Link(E, P) completes, the pairs handed to the link
\* job are exactly the registry entries of the names reachable from E through
\* non-intrinsic callees
C3_ClosureIsReachableSet ==
  ClosureDone =>
    /\ Reachable \subseteq DOMAIN m_functionNameMap
    /\ DOMAIN linkJob.m_functionDefs = {m_functionNameMap[n].info : n \in Reachable}
    /\ \A n \in Reachable :
         linkJob.m_functionDefs[m_functionNameMap[n].info] = m_functionNameMap[n].lib

\* C3 witness: a completed closure with functions of two libraries that leaves
\* out a function of an attached library
C3_Witness ==
  /\ ClosureDone
  /\ Cardinality({linkJob.m_functionDefs[p] : p \in DOMAIN linkJob.m_functionDefs}) = 2
  /\ Cardinality(DOMAIN linkJob.m_functionDefs) >= 3
  /\ DOMAIN m_functionNameMap \ Reachable # {}

\* C4: when the entry or a name reached from it is in no attached library,
\* Link emits "Cannot find definition of function <name>" for one missing name,
\* nothing else, creates no module and returns none
C4_MissingDefinitionFails ==
  (call.op = "Link" /\ Reachable \ DOMAIN m_functionNameMap # {}) =>
    \/ pc = "closure" /\ errs = <<>> /\ pM = Null
    \/ /\ pc = "idle" /\ ~ret /\ pM = Null
       /\ \E n \in Reachable \ DOMAIN m_functionNameMap :
            errs = <<"Cannot find definition of function " \o n>>

\* C4 witness: a Link that failed on a callee that a resolved function of an
\* attached library calls
C4_Witness ==
  /\ Returned("Link") /\ ~ret
  /\ call.entry \in DOMAIN m_functionNameMap
  /\ errs = <<"Cannot find definition of function helper">>

\* C5: no step of a Link, and so no failing Link, changes the library map, the
\* registry or the attached set
C5_LinkLeavesLinkerUnchanged ==
  [][(call'.op = "Link" /\ (pc # "idle" \/ pc' # "idle")) => UNCHANGED linker]_vars

\* C5 witness: a Link that failed on a missing name while the registry has
\* other names
C5_Witness ==
  /\ Returned("Link") /\ ~ret
  /\ Len(errs) = 1
  /\ m_functionNameMap # EmptyMap
  /\ call.entry \notin DOMAIN m_functionNameMap

\* the resources the functions of the closure use, each with its library
UsedResources ==
  UNION {{GetResource(m_LibMap, p[1], gv) :
            gv \in {x \in LinkInfo(m_LibMap, p).usedGVs :
                      IsResourceGlobal(m_LibMap[p[1]], x)}} :
         p \in DOMAIN linkJob.m_functionDefs}

\* C6: a Link does not get past the globals phase, and so returns no module,
\* when two resources of the closure from different libraries have the same
\* global name and differ in class or in type
C6_ConflictingResourcesAbort ==
  pc \in {"clone", "finish"} =>
    \A r1, r2 \in UsedResources :
      (r1.lib # r2.lib /\ r1.name = r2.name) =>
        (r1.class = r2.class /\ r1.type = r2.type)

\* the function the loop over the globals is at, its library and its globals
AtInfo == frame.order[frame.it]
AtGVs == LinkInfo(m_LibMap, AtInfo).usedGVs

\* the globals of that function the step leaves without a new global
Unmapped == {gv \in AtGVs : Ptr(AtInfo[1], gv) \notin DOMAIN frame'.vmap}

\* the resource globals of that function the step creates although the table
\* has a resource of another type under the name
FreshConflicts ==
  {gv \in AtGVs :
     /\ Ptr(AtInfo[1], gv) \notin DOMAIN frame.vmap
     /\ Ptr(AtInfo[1], gv) \in DOMAIN frame'.vmap
     /\ IsResourceGlobal(m_LibMap[AtInfo[1]], gv)
     /\ LET res == GetResource(m_LibMap, AtInfo[1], gv)
        IN linkJob'.m_resourceMap[res.name].res.type # res.type}

\* the diagnostics a step emitted
NewErrs == SubSeq(errs', Len(errs) + 1, Len(errs'))

\* the diagnostic the conflict on the global gv of the function gives
ConflictMessage(gv) ==
  IF IsResourceGlobal(m_LibMap[AtInfo[1]], gv)
  THEN LET res == GetResource(m_LibMap, AtInfo[1], gv)
       IN "Resource already exists as " \o res.class \o " for " \o res.name
  ELSE "Definition already exists for global variable " \o gv

\* C7: the globals phase handles every global of every function of the
\* closure, failed or not, with one diagnostic per redefinition or resource
\* conflict it meets, and returns no module only after the last function; no
\* body is cloned and no resource installed by then.  A failure of the closure
\* or of the validation ends the Link at once with a single diagnostic
C7_GlobalErrorsCollected ==
  [][(/\ (pc = "globals" /\ frame.it <= Len(frame.order)) =>
           (/\ pc' = "globals" /\ frame'.it = frame.it + 1
            /\ Len(NewErrs) = Cardinality(Unmapped) + Cardinality(FreshConflicts)
            /\ Range(NewErrs) = {ConflictMessage(gv) : gv \in Unmapped \cup FreshConflicts}
            /\ frame'.bSuccess = (errs' = <<>>)
            /\ pM'.resources = <<>>
            /\ \A n \in DOMAIN pM'.functions : ~pM'.functions[n].cloned)
      /\ (pc = "globals" /\ frame.it > Len(frame.order)) =>
           (/\ errs' = errs
            /\ IF errs # <<>> THEN pc' = "idle" /\ ~ret' /\ pM' = Null
                              ELSE pc' = "clone")
      /\ (pc = "closure" /\ errs' # errs) =>
           (Len(errs') = 1 /\ pc' = "idle" /\ ~ret' /\ pM' = Null))
    ]_vars

\* C7 witness: a Link that returned no module with three diagnostics of the
\* globals phase, one of them for a global redefinition
C7_Witness ==
  /\ Returned("Link") /\ ~ret /\ pM = Null
  /\ Len(errs) >= 3
  /\ \E i \in 1..Len(errs) : errs[i] = "Definition already exists for global variable g"
  /\ \E i \in 1..Len(errs) : errs[i] = "Resource already exists as Sampler for samp"

\* the shader kind of the entry's function properties, "none" without them
EntryKind ==
  m_LibMap[m_functionNameMap[call.entry].lib].functions[call.entry].kind

\* a Link step that returns no module with the one diagnostic msg and no
\* output module
FailsWith(msg) == pc' = "idle" /\ ~ret' /\ errs' = <<msg>> /\ pM' = Null

\* C8: after the closure Link checks, in this order and stopping at the first
\* failure with one diagnostic and no module: function properties of the
\* entry, shader kind not library or invalid, kind of the profile equal to the
\* kind of the entry; nothing is created in an output module before
C8_ValidationOrder ==
  [][(pc = "closure" /\ frame.workList = <<>>) =>
      (/\ pM = Null
       /\ IF EntryKind = "none"
          THEN FailsWith("Cannot find function property for entry function " \o call.entry)
          ELSE IF EntryKind \in {"library", "invalid"}
          THEN FailsWith(call.profile \o " is invalid profile to link")
          ELSE IF GetKind(call.profile) # EntryKind
          THEN FailsWith("Profile mismatch between entry function and target profile:"
                           \o call.profile \o " and " \o EntryKind)
          ELSE pc' = "globals" /\ errs' = <<>> /\ pM' # Null)
    ]_vars

\* C8 witness: a vertex entry linked for a pixel profile
C8_Witness ==
  /\ Returned("Link") /\ ~ret /\ pM = Null
  /\ errs = <<"Profile mismatch between entry function and target profile:ps_6_0 and vertex">>

\* C9: when the bodies are cloned the value map has a function of the output
\* module for every callee and a global of the output module for every used
\* global of every function of the closure, the lookup of a callee by name
\* never misses, and no cloned body refers to a function or global of an input
\* library
C9_ClonedBodiesAreClosed ==
  /\ (pc = "clone") =>
       (\A p \in DOMAIN linkJob.m_functionDefs :
          /\ \A gv \in LinkInfo(m_LibMap, p).usedGVs :
               /\ Ptr(p[1], gv) \in DOMAIN frame.vmap
               /\ frame.vmap[Ptr(p[1], gv)] = New(gv)
               /\ gv \in pM.globals
          /\ \A f \in LinkInfo(m_LibMap, p).usedFunctions :
               f \in DOMAIN linkJob.m_newFunctions)
  /\ (pM # Null) =>
       (/\ pM.asserts = {}
        /\ \A n \in DOMAIN pM.functions :
             pM.functions[n].cloned =>
               (/\ \A f \in pM.functions[n].usedFunctions :
                     f[1] = "pM" /\ f[2] \in DOMAIN pM.functions
                /\ \A gv \in pM.functions[n].usedGVs :
                     gv[1] = "pM" /\ gv[2] \in pM.globals))

\* C9 witness: a module returned with bodies of two libraries, a callee
\* mapped by name and a resource global two libraries share
C9_Witness ==
  /\ Returned("Link") /\ ret /\ pM # Null
  /\ {"main", "helper"} \subseteq DOMAIN pM.functions
  /\ pM.functions["main"].cloned /\ pM.functions["helper"].cloned
  /\ New("helper") \in pM.functions["main"].usedFunctions
  /\ New("tA") \in pM.functions["main"].usedGVs \cap pM.functions["helper"].usedGVs

\* the static initializers among the functions reachable from the entry
ReachableInits ==
  {n \in Reachable : IsInitFunc(m_LibMap[m_functionNameMap[n].lib], n)}

InitsSharingGlobals(L, F) ==
  LET tbl == m_LibMap[L].m_functionNameMap
  IN {C \in m_LibMap[L].m_initFuncSet \ {F} : tbl[C].usedGVs \cap tbl[F].usedGVs # {}}

\* C11: in every registered library each static initializer is in the call
\* set of every other function that uses one of the initializer's globals; so
\* a completed closure that has a user of such a global has the initializer,
\* and the module built from it calls the initializer in the entry block
C11_InitializersFollowGlobals ==
  /\ \A L \in DOMAIN m_LibMap :
       \A F \in DOMAIN m_LibMap[L].m_functionNameMap :
         InitsSharingGlobals(L, F) \subseteq m_LibMap[L].m_functionNameMap[F].usedFunctions
  /\ ClosureDone =>
       (\A p \in DOMAIN linkJob.m_functionDefs :
          \A C \in InitsSharingGlobals(p[1], p[2]) :
            /\ Ptr(p[1], C) \in DOMAIN linkJob.m_functionDefs
            /\ (pc = "finish") =>
                  (\E i \in 1..Len(pM.functions[call.entry].entryBlock) :
                     pM.functions[call.entry].entryBlock[i] =
                       [op |-> "call", callee |-> New(C)]))

\* C11 witness: a module is built from a closure in which a function other
\* than an initializer uses a global of the initializer
C11_Witness ==
  /\ pc = "finish"
  /\ \E p \in DOMAIN linkJob.m_functionDefs : InitsSharingGlobals(p[1], p[2]) # {}


\* the module a client registered as L: the one whose index the library is
ModuleOf(L) == CHOOSE M \in Modules : DxilLib(L, M) = m_LibMap[L]

\* the names the definitions of module M have in the module's source, by linkage
ExternalNames(M) == {f.name : f \in {x \in M.functions : ~x.decl /\ ~x.internal}}
InternalNames(M) == {f.name : f \in {x \in M.functions : ~x.decl /\ x.internal}}

\* an AttachLib step for a registered library that is not attached
AttachesNew ==
  /\ pc = "idle" /\ pc' = "idle" /\ call'.op = "AttachLib"
  /\ call'.name \in DOMAIN m_LibMap
  /\ call'.name \notin m_attachedLibs

\* C12: an AttachLib succeeds whenever the external function names of the
\* library are disjoint from those of every attached library, whatever the
\* names of the internal functions are
C12_InternalNamesNeverCollide ==
  [][(/\ AttachesNew
      /\ \A L2 \in m_attachedLibs :
           ExternalNames(ModuleOf(call'.name)) \cap ExternalNames(ModuleOf(L2)) = {})
       => ret']_vars


\* the names two registered libraries both give an internal function in source
SharedInternal(L1, L2) == InternalNames(ModuleOf(L1)) \cap InternalNames(ModuleOf(L2))

\* the indexed names of the definitions of L other than the internal
\* functions named in shared
OtherNames(L, shared) ==
  {FuncName(L, f) : f \in {x \in ModuleOf(L).functions :
                              ~x.decl /\ ~(x.internal /\ x.name \in shared)}}

\* C13: when a library is attached next to a library that defines an internal
\* function of the same source name f, and no other name of the one is a name
\* of the other, the two are indexed as <libA>f and <libB>f, which differ, and
\* the AttachLib succeeds with each name owned by its library
C13_SameInternalNameAttaches ==
  [][(/\ AttachesNew
      /\ \E L2 \in m_attachedLibs : SharedInternal(call'.name, L2) # {}
      /\ \A L2 \in m_attachedLibs :
           /\ OtherNames(call'.name, SharedInternal(call'.name, L2))
                \cap DOMAIN m_LibMap[L2].m_functionNameMap = {}
           /\ OtherNames(L2, SharedInternal(call'.name, L2))
                \cap DOMAIN m_LibMap[call'.name].m_functionNameMap = {})
       => (/\ ret' /\ errs' = <<>>
           /\ m_attachedLibs' = m_attachedLibs \cup {call'.name}
           /\ \A L2 \in m_attachedLibs : \A f \in SharedInternal(call'.name, L2) :
                /\ (call'.name \o f) # (L2 \o f)
                /\ (call'.name \o f) \in DOMAIN m_LibMap[call'.name].m_functionNameMap
                /\ (L2 \o f) \in DOMAIN m_LibMap[L2].m_functionNameMap
                /\ m_functionNameMap'[call'.name \o f].lib = call'.name
                /\ m_functionNameMap'[L2 \o f].lib = L2)]_vars

\* C13 witness: two libraries that both define an internal init are attached,
\* the second AttachLib just returned
C13_Witness ==
  /\ Returned("AttachLib") /\ ret
  /\ \E L2 \in m_attachedLibs \ {call.name} :
       /\ "init" \in SharedInternal(call.name, L2)
       /\ {call.name \o "init", L2 \o "init"} \subseteq DOMAIN m_functionNameMap


\* the range-id global of its library a descriptor of the closure belongs to
GVOf(r) ==
  CHOOSE gv \in DOMAIN m_LibMap[r.lib].m_resourceMap : GetResource(m_LibMap, r.lib, gv) = r

\* the merge of descriptor r into table t as the globals phase makes it: with
\* the global of the output module named as the range-id global of r
Merge(t, r) == AddResource(t, r, New(GVOf(r)))

\* two descriptors of different libraries for one global name that agree in
\* class and type
Compatible(r1, r2) ==
  r1.lib # r2.lib /\ r1.name = r2.name /\ r1.class = r2.class /\ r1.type = r2.type

\* what a table holds apart from the identity of the descriptors: the fields
\* of each descriptor and the global paired with it
Content(t) ==
  [n \in DOMAIN t |-> [class |-> t[n].res.class, name |-> t[n].res.name,
                        type |-> t[n].res.type, space |-> t[n].res.space,
                        GV |-> t[n].GV]]

\* C14 as stated: merged into a table of the globals phase in either order,
\* two compatible descriptors leave tables of the same content
C14_MergeCommutes ==
  (pc = "globals") =>
    \A r1, r2 \in UsedResources :
      (Compatible(r1, r2) /\ r1.name \notin DOMAIN linkJob.m_resourceMap) =>
        Content(Merge(Merge(linkJob.m_resourceMap, r1).resMap, r2).resMap)
          = Content(Merge(Merge(linkJob.m_resourceMap, r2).resMap, r1).resMap)

\* C14: merging a descriptor of the closure a second time changes neither the
\* table nor the result; merging two compatible descriptors succeeds in either
\* order and adds one entry to the table, which is the descriptor merged first
\* with its global
C14_MergeKeepsFirst ==
  (pc = "globals") =>
    LET t == linkJob.m_resourceMap
    IN /\ \A r \in UsedResources :
            LET m1 == Merge(t, r)
                m2 == Merge(m1.resMap, r)
            IN m2.resMap = m1.resMap /\ m2.ret = m1.ret
       /\ \A r1, r2 \in UsedResources :
            (Compatible(r1, r2) /\ r1.name \notin DOMAIN t) =>
              LET m1 == Merge(t, r1)
                  m2 == Merge(m1.resMap, r2)
              IN /\ m1.ret /\ m2.ret /\ m1.errs = <<>> /\ m2.errs = <<>>
                 /\ m2.resMap = Put(t, r1.name, [res |-> r1, GV |-> New(GVOf(r1))])

\* C14 witness: the globals phase merged two compatible descriptors that
\* differ in a field the merge does not compare; the table has one of them
C14_Witness ==
  /\ pc = "globals"
  /\ \E r1, r2 \in UsedResources :
       /\ Compatible(r1, r2) /\ r1.space # r2.space
       /\ {Ptr(r1.lib, GVOf(r1)), Ptr(r2.lib, GVOf(r2))} \subseteq DOMAIN frame.vmap
       /\ r1.name \in DOMAIN linkJob.m_resourceMap
       /\ linkJob.m_resourceMap[r1.name].res = r1


\* a step that is the facade call op, made and returned between two Links
Calls(op) == pc = "idle" /\ pc' = "idle" /\ call'.op = op

\* the function table of the library registered as L
FunctionTable(L) == DOMAIN m_LibMap[L].m_functionNameMap

\* C15: DetachLib(L) of an attached library L, as it is after AttachLib(L)
\* succeeded, succeeds, and the AttachLib(L) that follows succeeds for every
\* order of the function table and gives back the registry and the attached
\* set from before the DetachLib
C15_AttachDetachAttach ==
  [][(Calls("DetachLib") /\ call'.name \in m_attachedLibs) =>
       (/\ ret' /\ errs' = <<>>
        /\ m_attachedLibs' = m_attachedLibs \ {call'.name}
        /\ \A order \in Orders(FunctionTable(call'.name)) :
             LET r == AttachLibImpl(m_LibMap, m_attachedLibs', m_functionNameMap',
                                    call'.name, order)
             IN /\ r.ret /\ r.errs = <<>>
                /\ r.fnMap = m_functionNameMap
                /\ r.attached = m_attachedLibs)]_vars

\* C15 witness: a library with several functions was detached while another
\* library stays attached
C15_Witness ==
  /\ Returned("DetachLib") /\ ret
  /\ Cardinality(FunctionTable(call.name)) >= 3
  /\ m_attachedLibs # {} /\ m_functionNameMap # EmptyMap

\* the outcomes of AttachLib for each library of libs from the i-th on, in this
\* order, each for every order of its function table
RECURSIVE AttachAll(_, _, _, _)
AttachAll(libMap, st, libs, i) ==
  IF i > Len(libs) THEN {st}
  ELSE UNION {LET r == AttachLibImpl(libMap, st.attached, st.fnMap, libs[i], order)
              IN AttachAll(libMap,
                           [attached |-> r.attached, fnMap |-> r.fnMap,
                            ok |-> st.ok /\ r.ret /\ r.errs = <<>>],
                           libs, i + 1) :
              order \in Orders(DOMAIN libMap[libs[i]].m_functionNameMap)}

\* C16: DetachAll empties the registry and the attached set, and AttachLib of
\* the libraries that were attached, in any order, then succeeds for each and
\* gives back the registry and the attached set from before the DetachAll
C16_DetachAllReattach ==
  [][Calls("DetachAll") =>
       (/\ m_attachedLibs' = {} /\ m_functionNameMap' = EmptyMap
        /\ \A libs \in Orders(m_attachedLibs) :
             AttachAll(m_LibMap, [attached |-> m_attachedLibs',
                                  fnMap |-> m_functionNameMap', ok |-> TRUE], libs, 1)
               = {[attached |-> m_attachedLibs, fnMap |-> m_functionNameMap,
                   ok |-> TRUE]})]_vars

\* C16 witness: a DetachAll that found two libraries attached
C16_Witness ==
  /\ Returned("DetachAll")
  /\ Cardinality(call.detached) = 2
  /\ m_attachedLibs = {} /\ m_functionNameMap = EmptyMap

\* C17: an AttachLib that fails emits "Definition already exists for function
\* N" once for each name N of the library that the registry had, from another
\* attached library, and nothing else
C17_OneDiagnosticPerCollision ==
  [][(AttachesNew /\ ~ret') =>
       LET colliding == FunctionTable(call'.name) \cap DOMAIN m_functionNameMap
       IN /\ colliding # {}
          /\ Len(errs') = Cardinality(colliding)
          /\ Range(errs') = {"Definition already exists for function " \o N :
                               N \in colliding}
          /\ \A N \in colliding :
               m_functionNameMap[N].lib \in m_attachedLibs \ {call'.name}]_vars

\* C17 witness: an AttachLib that failed on foo and main with two diagnostics
\* and has a name that does not collide
C17_Witness ==
  /\ Returned("AttachLib") /\ ~ret
  /\ Len(errs) = 2
  /\ Range(errs) = {"Definition already exists for function foo",
                    "Definition already exists for function main"}
  /\ FunctionTable(call.name) \ DOMAIN m_functionNameMap # {}

\* C18: RegisterLib of a registered name or without a module, AttachLib or
\* DetachLib of a name that is not registered, AttachLib of an attached
\* library and DetachLib of a library that is not attached return false, emit
\* no diagnostic and leave library map, registry and attached set as they were
C18_StateErrorsChangeNothing ==
  [][(\/ Calls("RegisterLib") /\ (call'.name \in DOMAIN m_LibMap \/ ~ret')
      \/ Calls("AttachLib") /\ call'.name \notin DOMAIN m_LibMap
      \/ Calls("DetachLib") /\ call'.name \notin DOMAIN m_LibMap
      \/ Calls("AttachLib") /\ call'.name \in m_attachedLibs
      \/ Calls("DetachLib") /\ call'.name \in DOMAIN m_LibMap
                            /\ call'.name \notin m_attachedLibs)
       => (~ret' /\ errs' = <<>> /\ UNCHANGED linker)]_vars

\* C18 witness: AttachLib of a library that is attached returned false
\* without a diagnostic
C18_Witness ==
  /\ Returned("AttachLib") /\ ~ret /\ errs = <<>>
  /\ call.name \in m_attachedLibs
  /\ FunctionTable(call.name) \subseteq DOMAIN m_functionNameMap


\* what the while loop of Link can end with from the locals fr and the job,
\* one outcome for each way to iterate the call sets: the result, the
\* diagnostics, the names handed to the job and the shader operations
RECURSIVE ClosureOutcomes(_, _, _, _)
ClosureOutcomes(fnMap, libMap, fr, job) ==
  IF fr.workList = <<>>
  THEN {[ret |-> TRUE, errs |-> <<>>,
         closure |-> {p[2] : p \in DOMAIN job.m_functionDefs},
         dxil |-> DOMAIN job.m_dxilFunctions]}
  ELSE UNION {LET r == LinkWhileBody(fnMap, libMap, fr, job, used)
              IN IF r.failed
                 THEN {[ret |-> FALSE, errs |-> r.errs, closure |-> {}, dxil |-> {}]}
                 ELSE ClosureOutcomes(fnMap, libMap, r.frame, r.job) :
              used \in Orders(UsedFunctions(fnMap, libMap,
                                            fr.workList[Len(fr.workList)]))}

\* Link is about to enter its while loop
ClosureStarts == pc = "closure" /\ frame.addedFunctionSet = {} /\ linkJob = NoJob

\* C19 as stated: the while loop of a Link ends the same way for every order
\* of the call sets: same closure, same result, same diagnostics
C19_ClosureOrderUnobservable ==
  ClosureStarts =>
    Cardinality(ClosureOutcomes(m_functionNameMap, m_LibMap, frame, linkJob)) = 1

\* C19: for every order of the call sets the while loop of a Link ends with
\* the same result and, when it succeeds, the same closure and the same shader
\* operations; when it fails the one diagnostic is for one of the reachable
\* names the registry does not have
C19_ClosureOrderKeepsResult ==
  ClosureStarts =>
    LET outcomes == ClosureOutcomes(m_functionNameMap, m_LibMap, frame, linkJob)
    IN /\ \A o1, o2 \in outcomes :
            o1.ret = o2.ret /\ o1.closure = o2.closure /\ o1.dxil = o2.dxil
       /\ \A o \in outcomes :
            IF o.ret THEN o.errs = <<>> /\ o.closure = Reachable
            ELSE \E n \in Reachable \ DOMAIN m_functionNameMap :
                   o.errs = <<"Cannot find definition of function " \o n>>

\* C19 witness: a Link failed on one of two names that its entry calls and no
\* attached library defines
C19_Witness ==
  /\ Returned("Link") /\ ~ret
  /\ Reachable \ DOMAIN m_functionNameMap = {"leaf", "bar"}
  /\ errs = <<"Cannot find definition of function bar">>

\* C20: every iteration of the while loop of Link either drops a name that is
\* in addedFunctionSet, or resolves a name that is not and puts it there, so
\* that no name is resolved twice; and the loop ends: the work list runs
\* empty or Link returns no module
C20_ClosureTerminates ==
  /\ [][(pc = "closure" /\ frame.workList # <<>> /\ pc' = "closure") =>
          LET name == frame.workList[Len(frame.workList)]
          IN IF name \in frame.addedFunctionSet
             THEN /\ frame'.workList = SubSeq(frame.workList, 1, Len(frame.workList) - 1)
                  /\ frame'.addedFunctionSet = frame.addedFunctionSet
                  /\ linkJob' = linkJob
             ELSE /\ frame'.addedFunctionSet = frame.addedFunctionSet \cup {name}
                  /\ m_functionNameMap[name].info \notin DOMAIN linkJob.m_functionDefs
                  /\ m_functionNameMap[name].info \in DOMAIN linkJob'.m_functionDefs]_vars
  /\ (pc = "closure") ~>
       ((pc = "closure" /\ frame.workList = <<>>) \/ (pc = "idle" /\ ~ret))

\* C20 witness: the work list ran empty for a closure with the mutually
\* recursive helper and leaf, helper being called by main and by leaf
C20_Witness ==
  /\ pc = "closure" /\ frame.workList = <<>>
  /\ call.entry = "main"
  /\ {"main", "helper", "leaf"} \subseteq frame.addedFunctionSet


\* the shader operations the functions of the job call
UsedDxilFunctions ==
  {f \in UNION {LinkInfo(m_LibMap, p).usedFunctions : p \in DOMAIN linkJob.m_functionDefs} :
     IsDxilOpFunc(f)}

\* C21: a shader operation is never on the work list, never in the set of
\* functions to materialize and never reported as undefined; once the closure
\* is complete the job has every shader operation its functions call, by name,
\* and the output module has one function for each, a declaration that is not
\* cloned, besides the functions of the closure
C21_IntrinsicsDeclaredOnce ==
  /\ \A i \in 1..Len(frame.workList) : ~IsDxilOpFunc(frame.workList[i])
  /\ \A n \in frame.addedFunctionSet : ~IsDxilOpFunc(n)
  /\ \A p \in DOMAIN linkJob.m_functionDefs : ~IsDxilOpFunc(p[2])
  /\ \A i \in 1..Len(errs) :
       \A n \in UNION {DOMAIN m_LibMap[L].functions : L \in DOMAIN m_LibMap} :
         IsDxilOpFunc(n) => errs[i] # "Cannot find definition of function " \o n
  /\ ClosureDone => DOMAIN linkJob.m_dxilFunctions = UsedDxilFunctions
  /\ (pc \in {"globals", "clone", "finish"}) =>
       (/\ DOMAIN pM.functions =
              UsedDxilFunctions \cup {p[2] : p \in DOMAIN linkJob.m_functionDefs}
        /\ Cardinality(DOMAIN pM.functions) =
              Cardinality(UsedDxilFunctions) + Cardinality(DOMAIN linkJob.m_functionDefs)
        /\ \A n \in UsedDxilFunctions :
             /\ ~pM.functions[n].cloned
             /\ pM.functions[n].entryBlock = <<>>
             /\ linkJob.m_newFunctions[n] = New(n))
  /\ (pM # Null) =>
       (\A n \in DOMAIN pM.functions : IsDxilOpFunc(n) => ~pM.functions[n].cloned)

\* C21 witness: a module returned in which cloned functions of two libraries
\* call the one declaration of dx.op.sqrt
C21_Witness ==
  /\ Returned("Link") /\ ret
  /\ {"main", "leaf", "dx.op.sqrt"} \subseteq DOMAIN pM.functions
  /\ pM.functions["main"].cloned /\ pM.functions["leaf"].cloned
  /\ ~pM.functions["dx.op.sqrt"].cloned
  /\ New("dx.op.sqrt") \in pM.functions["main"].usedFunctions
                          \cap pM.functions["leaf"].usedFunctions


\* the functions of the output module that keep the always-inline marker: the
\* functions of the closure but the entry and, for a hull entry, the
\* patch-constant function
InlineMarked ==
  {p[2] : p \in DOMAIN linkJob.m_functionDefs}
    \ ({pM.entryFunction[2]}
         \cup (IF pM.shaderKind = "hull" THEN {pM.patchConstantFunc[2]} ELSE {}))

\* C22: from the creation of the functions to the start of the passes a
\* function of the output module is marked always-inline exactly when it is a
\* function of the closure other than the entry and, for a hull entry, other
\* than the patch-constant function; a shader operation never is
C22_AlwaysInlineButEntry ==
  (pc \in {"globals", "clone", "finish"}) =>
    /\ pM.entryFunction = New(call.entry)
    /\ (pM.shaderKind = "hull") <=> (pM.patchConstantFunc # Null)
    /\ \A n \in DOMAIN pM.functions :
         pM.functions[n].AlwaysInline <=> (n \in InlineMarked)
    /\ \A n \in DOMAIN pM.functions : IsDxilOpFunc(n) => ~pM.functions[n].AlwaysInline

\* C22 witness: the passes are about to start on a hull shader whose entry foo
\* and patch-constant function helper are not marked, whose other function
\* leaf is, and whose shader operation is not
C22_Witness ==
  /\ pc = "finish"
  /\ pM.shaderKind = "hull"
  /\ pM.entryFunction = New("foo") /\ pM.patchConstantFunc = New("helper")
  /\ {"foo", "helper", "leaf", "dx.op.sqrt"} \subseteq DOMAIN pM.functions
  /\ ~pM.functions["foo"].AlwaysInline /\ ~pM.functions["helper"].AlwaysInline
  /\ pM.functions["leaf"].AlwaysInline
  /\ ~pM.functions["dx.op.sqrt"].AlwaysInline


\* the patch-constant function of the entry's function properties
PatchConstantFunc ==
  m_LibMap[m_functionNameMap[call.entry].lib].functions[call.entry].pcf

\* the last call is a Link whose entry is a registered hull shader
HullLink ==
  /\ call.op = "Link"
  /\ call.entry \in DOMAIN m_functionNameMap
  /\ EntryKind = "hull"

\* what holds of every Link of a hull entry: the patch-constant function is
\* reached from the entry, a complete closure has the definition the registry
\* gives for its name, whatever library owns it, and an output module has its
\* new function as patch-constant function
HullClosure ==
  /\ PatchConstantFunc \in Reachable
  /\ ClosureDone =>
       /\ PatchConstantFunc \in DOMAIN m_functionNameMap
       /\ m_functionNameMap[PatchConstantFunc].info \in DOMAIN linkJob.m_functionDefs
  /\ (pM # Null) =>
       /\ PatchConstantFunc \in DOMAIN pM.functions
       /\ pM.patchConstantFunc = New(PatchConstantFunc)
       /\ (pc \in {"globals", "clone", "finish"}) =>
            linkJob.m_newFunctions[PatchConstantFunc] = pM.patchConstantFunc

\* C23 as stated: besides HullClosure, a Link whose patch-constant function is
\* in no attached library fails with the diagnostic that names it
C23_MissingCompanionNamed ==
  HullLink =>
    /\ HullClosure
    /\ (Returned("Link") /\ PatchConstantFunc \notin DOMAIN m_functionNameMap) =>
         /\ ~ret /\ pM = Null
         /\ errs = <<kUndefFunction \o PatchConstantFunc>>

\* C23: besides HullClosure, a Link whose patch-constant function is in no
\* attached library fails with one diagnostic "Cannot find definition of
\* function" that names a function reached from the entry and in no attached
\* library: the patch-constant function when no other one is missing
C23_MissingCompanionFails ==
  HullLink =>
    /\ HullClosure
    /\ (Returned("Link") /\ PatchConstantFunc \notin DOMAIN m_functionNameMap) =>
         /\ ~ret /\ pM = Null
         /\ \E n \in Reachable \ DOMAIN m_functionNameMap :
              errs = <<kUndefFunction \o n>>
         /\ (Reachable \ DOMAIN m_functionNameMap = {PatchConstantFunc}) =>
              errs = <<kUndefFunction \o PatchConstantFunc>>

\* C23 witness: a hull shader linked with the patch-constant function that
\* another library defines
C23_Witness ==
  /\ Returned("Link") /\ ret /\ HullLink
  /\ pM.patchConstantFunc = New(PatchConstantFunc)
  /\ pM.functions[PatchConstantFunc].cloned
  /\ m_functionNameMap[PatchConstantFunc].lib # m_functionNameMap[call.entry].lib

\* a Link of a hull shader that failed on its patch-constant function, the
\* only function missing
C23_WitnessMissing ==
  /\ Returned("Link") /\ ~ret /\ HullLink
  /\ Reachable \ DOMAIN m_functionNameMap = {PatchConstantFunc}
  /\ errs = <<kUndefFunction \o PatchConstantFunc>>


\* the log of n function clones and the call of the initializers
ClonedAndCalled(n) == [i \in 1..n |-> "CloneFunction"] \o <<"CallCtors">>

\* the passes in the order always-inliner, dead-code elimination, global
\* dead-code elimination, instruction simplification, CFG simplification,
\* resource condensation, view-id state, metadata emission
PassesInOrder ==
  <<"AlwaysInliner", "DeadCodeElimination", "GlobalDCE", "SimplifyInst",
    "CFGSimplification", "DxilCondenseResources", "ComputeViewIdState",
    "DxilEmitMetadata">>

\* the steps of a Link after validation and globals, tail being the steps
\* after the call of the initializers: a step is logged only while the globals
\* phase has succeeded, the last step of a successful Link starts from one
\* clone per function of the closure and the call of the initializers and
\* leaves these followed by tail, and a Link that fails has logged no step and
\* returns no module
StepsThen(tail) ==
  /\ (pM # Null /\ pM' # Null /\ pM'.log # pM.log) =>
       pc \in {"clone", "finish"} /\ frame.bSuccess
  /\ (pc = "finish") =>
       pM.log = ClonedAndCalled(Cardinality(DOMAIN linkJob.m_functionDefs))
  /\ (pc # "idle" /\ pc' = "idle" /\ ret') =>
       /\ pc = "finish"
       /\ pM'.log = pM.log \o tail
  /\ (pc # "idle" /\ pc' = "idle" /\ ~ret') =>
       /\ pM' = Null
       /\ pM = Null \/ pM.log = <<>>

\* C24 as stated: after validation and the globals phase a Link runs, once
\* each and in this order, the cloning of every function, the insertion of the
\* initializer calls, the installation of the resource tables, the refresh of
\* the intrinsic cache and the passes in their order; a failed Link runs none
C24_ResourcesBeforeRefresh ==
  [][StepsThen(<<"AddResourceToDM", "RefreshCache">> \o PassesInOrder)]_vars

\* C24: after validation and the globals phase a Link runs, once each and in
\* this order, the cloning of every function, the insertion of the
\* initializer calls, the refresh of the intrinsic cache, the installation of
\* the resource tables and the passes in their order; a failed Link runs none
C24_RefreshBeforeResources ==
  [][StepsThen(<<"RefreshCache", "AddResourceToDM">> \o PassesInOrder)]_vars

\* C24 witness: a Link returned a module of three cloned functions with
\* resources after all its steps
C24_Witness ==
  /\ Returned("Link") /\ ret
  /\ Len(pM.resources) >= 2
  /\ pM.log = ClonedAndCalled(3) \o <<"RefreshCache", "AddResourceToDM">> \o PassesInOrder


\* the descriptors of table t made for the entry of the merged table named k
DescriptorsOf(t, k) ==
  {i \in 1..Len(t) : t[i].name = k /\ t[i].class = linkJob.m_resourceMap[k].res.class}

C26_RegistryIsAttachedNames ==
  /\ m_attachedLibs \subseteq DOMAIN m_LibMap
  /\ DOMAIN m_functionNameMap = UNION {FunctionTable(L) : L \in m_attachedLibs}
  /\ \A N \in DOMAIN m_functionNameMap :
       /\ m_functionNameMap[N].lib \in m_attachedLibs
       /\ N \in FunctionTable(m_functionNameMap[N].lib)
       /\ m_functionNameMap[N].info = Ptr(m_functionNameMap[N].lib, N)
  /\ \A p \in DOMAIN linkJob.m_functionDefs :
       /\ p[1] \in m_attachedLibs
       /\ linkJob.m_functionDefs[p] = p[1]
       /\ p[2] \in DOMAIN m_functionNameMap /\ m_functionNameMap[p[2]].info = p

\* C26 witness: a Link failed on helper, which an attached library calls and
\* only a registered library that is not attached defines
C26_Witness ==
  /\ Returned("Link") /\ ~ret
  /\ errs = <<kUndefFunction \o "helper">>
  /\ m_attachedLibs # {}
  /\ \E L \in DOMAIN m_LibMap \ m_attachedLibs : "helper" \in FunctionTable(L)


\* what the loop over the globals can end with from st, one outcome for each
\* order of the functions todo of m_functionDefs and of their usedGVs: the
\* result, the set of diagnostics and the globals created
RECURSIVE GlobalsOutcomes(_, _)
GlobalsOutcomes(st, todo) ==
  IF todo = {}
  THEN {[bSuccess |-> st.bSuccess, errs |-> Range(st.errs), globals |-> st.globals]}
  ELSE UNION {UNION {GlobalsOutcomes(AddGlobals(st, m_LibMap, linkJob.m_functionDefs[p],
                                                gvs, 1),
                                     todo \ {p}) :
                       gvs \in Orders(LinkInfo(m_LibMap, p).usedGVs)} :
              p \in todo}

\* Link is about to enter the loop over the globals
GlobalsStart == pc = "globals" /\ frame.it = 1

\* the outcomes of the loop over the globals of the Link under way
GlobalsPhase ==
  GlobalsOutcomes([vmap |-> frame.vmap, newGlobals |-> linkJob.m_newGlobals,
                   resMap |-> linkJob.m_resourceMap, globals |-> pM.globals,
                   bSuccess |-> frame.bSuccess, errs |-> <<>>],
                  DOMAIN linkJob.m_functionDefs)

\* C27: the loop over the globals of a Link ends the same way for every order
\* of the functions of the closure and of the globals each uses: same result,
\* same set of diagnostics, and the globals the closure uses created once each
C27_GlobalsOrderUnobservable ==
  GlobalsStart =>
    /\ Cardinality(GlobalsPhase) = 1
    /\ \A o \in GlobalsPhase :
         o.globals = UNION {LinkInfo(m_LibMap, p).usedGVs :
                              p \in DOMAIN linkJob.m_functionDefs}

\* the loop over the globals of a closure with a resource global and a plain
\* global of one name can succeed and can fail
C27_OrderDecidesResult ==
  /\ GlobalsStart
  /\ \E p, q \in DOMAIN linkJob.m_functionDefs :
       \E gv \in LinkInfo(m_LibMap, p).usedGVs \cap LinkInfo(m_LibMap, q).usedGVs :
         /\ p[1] # q[1]
         /\ IsResourceGlobal(m_LibMap[p[1]], gv) /\ ~IsResourceGlobal(m_LibMap[q[1]], gv)
  /\ \E o1, o2 \in GlobalsPhase :
       /\ o1.bSuccess /\ o1.errs = {}
       /\ ~o2.bSuccess /\ o2.errs = {kRedefineGlobal \o "tE"}

====
